---- MODULE Spec2Model ----
(***************************************************************************)
(* Icon-migration utilities of dungeon-delver.                             *)
(*                                                                         *)
(* A document is a sequence of one-character strings.  The rewriters are   *)
(* computed character by character, as str.replace, the `in` test and      *)
(* re.sub compute them.  The documents the model starts from are rendered  *)
(* from short lists of fields (icon fields, id fields, other attributes),  *)
(* which are kept in `source` so that properties can be stated on the      *)
(* fields and compared with what the character-level code produced.        *)
(***************************************************************************)
EXTENDS Integers, Sequences, FiniteSets, TLC

VARIABLES
    tool,            \* the script that is run (and re-run) on the file
    replacements,    \* direct mode: the ordered list of (old, new) tuples
    icon_mappings,   \* anchored mode: the set of (ability_id, new) tuples
    source,          \* the fields the initial document was rendered from
    disk,            \* content of the target file
    runs,            \* number of completed runs of the rewriter
    original,        \* `original` / `original_content` of the last run
    trace,           \* `content` before the loop and after each entry, last run
    order,           \* the entries in the order the last run iterated them
    ret,             \* return value of the last run
    wrote,           \* whether the last run opened the file for writing
    replaced_count,  \* execute_wave4_updates: replaced_count of the last run
    report,          \* the status line the last call of the injector printed
    pc,              \* where main is: idle, paths, icons, build, commit, done
    files,           \* main: content of the four path files
    files0,          \* main: their content when main started
    exists,          \* main: which of the four path files exist
    icons_present,   \* main: whether constants/icons.ts exists
    next_file,       \* main: index of the next entry of files_to_update
    processed,       \* main: the files replace_icons_in_file was called on
    updated,         \* main: updated_files (updated_count is its length)
    statuses,        \* main: the status line printed for each file
    hooks,           \* main: the hooks invoked so far, in order
    exit_code,       \* main: exit status of the process, -1 while it runs
    failed_at        \* main: the step main gave up at, "" when none

\* the state of main
mainvars == <<pc, files, files0, exists, icons_present, next_file, processed,
              updated, statuses, hooks, exit_code, failed_at>>

\* what the rewriters of the path files leave alone
aux == <<report, mainvars>>

vars == <<tool, replacements, icon_mappings, source, disk, runs, original,
          trace, order, ret, wrote, replaced_count, aux>>

-----------------------------------------------------------------------------
(* Bounds *)

MaxFrags == 3

MaxEntries == 2

MaxRuns == 2

-----------------------------------------------------------------------------
(* Text *)

Zap == <<"Z", "a", "p">>

Axe == <<"A", "x", "e">>

ArrowUp == <<"a", "-", "b">>

Pz == <<"p", "-", "z">>

Qq == <<"q", "_", "q">>

Empty == <<>>

IdA == <<"r", "_", "a">>

IdB == <<"r", "_", "b">>

Spaces(n) == [i \in 1..n |-> " "]

RECURSIVE Concat(_)
Concat(ss) == IF ss = <<>> THEN <<>> ELSE Head(ss) \o Concat(Tail(ss))

\* s[p..] starts with lit
MatchLitAt(s, p, lit) ==
    /\ p >= 1
    /\ p + Len(lit) - 1 <= Len(s)
    /\ \A k \in 1..Len(lit) : s[p + k - 1] = lit[k]

\* str.find: the lowest index >= from where pat occurs, 0 when there is none
Find(s, pat, from) ==
    LET hits == {p \in from..Len(s) : MatchLitAt(s, p, pat)}
    IN  IF hits = {} THEN 0 ELSE CHOOSE p \in hits : \A q \in hits : p <= q

\* `pat in s`
Contains(s, pat) == Find(s, pat, 1) # 0

\* s.replace(pat, rep, 1)
ReplaceFirstAppend(s, pat, rep) ==
    LET p == Find(s, pat, 1)
    IN  IF p = 0 THEN s \o rep
        ELSE SubSeq(s, 1, p - 1) \o rep \o SubSeq(s, p + Len(pat), Len(s))

ReplaceFirst(s, pat, rep) ==
    LET p == Find(s, pat, 1)
    IN  IF p = 0 THEN s
        ELSE SubSeq(s, 1, p - 1) \o rep \o SubSeq(s, p + Len(pat), Len(s))

\* re.escape (Python >= 3.7): the characters of _special_chars_map
SpecialChars ==
    {"(", ")", "[", "]", "{", "}", "?", "*", "+", "-", "|", "^", "$",
     "\\", ".", "&", "~", "#", " ", "\t", "\n", "\r"}

RECURSIVE re_escape(_)
re_escape(s) ==
    IF s = <<>> THEN <<>>
    ELSE (IF Head(s) \in SpecialChars THEN <<"\\", Head(s)>> ELSE <<Head(s)>>)
         \o re_escape(Tail(s))

IconLit == <<"i", "c", "o", "n", ":">>

IdLit == <<"i", "d", ":">>

Quote == "'"

\* f"icon: '{re.escape(old_icon)}'"
Pattern(old_icon) == IconLit \o <<" ", Quote>> \o re_escape(old_icon) \o <<Quote>>

\* f"icon: '{new_icon}'"
Replacement(new_icon) == IconLit \o <<" ", Quote>> \o new_icon \o <<Quote>>

-----------------------------------------------------------------------------
(* Documents *)

IconField(ws, v) == [k |-> "icon", ws |-> ws, v |-> v]

IdField(ws, v) == [k |-> "id", ws |-> ws, v |-> v]

OtherField == [k |-> "name", ws |-> 0, v |-> <<"N">>]

\* the text of one field, followed by a comma and a blank
RenderField(f) ==
    (IF f.k = "icon" THEN IconLit ELSE IF f.k = "id" THEN IdLit ELSE <<"n", ":">>)
    \o Spaces(f.ws) \o <<Quote>> \o f.v \o <<Quote, ",", " ">>

Render(fs) == Concat([i \in 1..Len(fs) |-> RenderField(fs[i])])

SeqsUpTo(S, n) == UNION {[1..m -> S] : m \in 0..n}

DirectFields ==
    {IconField(1, Zap), IconField(1, ArrowUp), IconField(2, Zap),
     IconField(1, Pz), OtherField}

DirectEntries == {<<Zap, Pz>>, <<Zap, Qq>>, <<Zap, Zap>>, <<ArrowUp, Pz>>}

AnchoredFields ==
    {IdField(1, IdA), IdField(1, IdB), IdField(0, IdA),
     IconField(1, Zap), IconField(2, Axe), IconField(1, Empty), OtherField}

AnchoredEntries == {<<IdA, Pz>>, <<IdA, Qq>>, <<IdB, Qq>>}

DirectTools == {"apply_icon_updates", "execute_wave4_updates"}

-----------------------------------------------------------------------------
(* Direct mode: replace_icons_in_file *)

\* one iteration of the loop of apply_icon_updates.replace_icons_in_file
ApplyEntry(content, e) == ReplaceFirst(content, Pattern(e[1]), Replacement(e[2]))

\* one iteration of the loop of execute_wave4_updates.replace_icons_in_file
Wave4Found(content, e) == Contains(content, Pattern(e[1]))

Wave4EntryTwice(content, e) ==
    IF Wave4Found(content, e)
    THEN ReplaceFirst(ReplaceFirst(content, Pattern(e[1]), Replacement(e[2])),
                      Pattern(e[1]), Replacement(e[2]))
    ELSE content

Wave4Entry(content, e) ==
    IF Wave4Found(content, e)
    THEN ReplaceFirst(content, Pattern(e[1]), Replacement(e[2]))
    ELSE content

\* `content` before the loop and after each of its iterations
RECURSIVE ApplyTraceHalt(_, _)
ApplyTraceHalt(content, es) ==
    IF es = <<>> \/ ~Contains(content, Pattern(Head(es)[1])) THEN <<content>>
    ELSE <<content>> \o ApplyTraceHalt(ApplyEntry(content, Head(es)), Tail(es))

RECURSIVE ApplyTrace(_, _)
ApplyTrace(content, es) ==
    IF es = <<>> THEN <<content>>
    ELSE <<content>> \o ApplyTrace(ApplyEntry(content, Head(es)), Tail(es))

RECURSIVE Wave4Trace(_, _)
Wave4Trace(content, es) ==
    IF es = <<>> THEN <<content>>
    ELSE <<content>> \o Wave4Trace(Wave4Entry(content, Head(es)), Tail(es))

\* replaced_count after the loop
RECURSIVE Wave4CountAll(_, _)
Wave4CountAll(content, es) ==
    IF es = <<>> THEN 0
    ELSE 1 + Wave4CountAll(Wave4Entry(content, Head(es)), Tail(es))

RECURSIVE Wave4Count(_, _)
Wave4Count(content, es) ==
    IF es = <<>> THEN 0
    ELSE (IF Wave4Found(content, Head(es)) THEN 1 ELSE 0)
         + Wave4Count(Wave4Entry(content, Head(es)), Tail(es))

Last(s) == s[Len(s)]

\* `if content != original:`
ChangedAlways(content, orig) == TRUE

Changed(content, orig) == content # orig

apply_replace_icons_in_file ==
    /\ tool = "apply_icon_updates"
    /\ runs < MaxRuns
    /\ LET t == ApplyTrace(disk, replacements)
       IN  /\ original' = disk
           /\ trace' = t
           /\ order' = replacements
           /\ wrote' = Changed(Last(t), disk)
           /\ disk' = IF Changed(Last(t), disk) THEN Last(t) ELSE disk
           /\ ret' = Changed(Last(t), disk)
    /\ runs' = runs + 1
    /\ UNCHANGED <<tool, replacements, icon_mappings, source, replaced_count, aux>>

wave4_replace_icons_in_file ==
    /\ tool = "execute_wave4_updates"
    /\ runs < MaxRuns
    /\ LET t == Wave4Trace(disk, replacements)
       IN  /\ original' = disk
           /\ trace' = t
           /\ order' = replacements
           /\ replaced_count' = Wave4Count(disk, replacements)
           /\ wrote' = Changed(Last(t), disk)
           /\ disk' = IF Changed(Last(t), disk) THEN Last(t) ELSE disk
           /\ ret' = Changed(Last(t), disk)
    /\ runs' = runs + 1
    /\ UNCHANGED <<tool, replacements, icon_mappings, source, aux>>

-----------------------------------------------------------------------------
(* Anchored mode: update_file *)

\* \s
IsWs(c) == c \in {" ", "\t", "\n", "\r"}

\* \s* from p: greedy; giving a blank back never helps, since the next
\* pattern character is a quote
RECURSIVE SkipWs(_, _)
SkipWs(s, p) == IF p <= Len(s) /\ IsWs(s[p]) THEN SkipWs(s, p + 1) ELSE p

\* the text a regular expression made of escaped literals matches
RECURSIVE Unescape(_)
Unescape(e) ==
    IF e = <<>> THEN <<>>
    ELSE IF Head(e) = "\\" /\ Len(e) >= 2 THEN <<e[2]>> \o Unescape(SubSeq(e, 3, Len(e)))
    ELSE <<Head(e)>> \o Unescape(Tail(e))

\* id:\s*'{re.escape(ability_id)}', matched at p: the index after the match,
\* 0 when it does not match there
AnchorEnd(s, p, ability_id) ==
    IF ~MatchLitAt(s, p, IdLit) THEN 0
    ELSE LET r == SkipWs(s, p + Len(IdLit))
             lit == <<Quote>> \o Unescape(re_escape(ability_id)) \o <<Quote, ",">>
         IN  IF MatchLitAt(s, r, lit) THEN r + Len(lit) ELSE 0

\* the first quote at or after p, 0 when there is none
NextQuote(s, p) ==
    LET qs == {q \in p..Len(s) : s[q] = Quote}
    IN  IF qs = {} THEN 0 ELSE CHOOSE q \in qs : \A x \in qs : q <= x

\* icon:\s*'[^']+' matched at p: the index after the match, 0 when it does
\* not match there
IconEndAnyValue(s, p) ==
    IF ~MatchLitAt(s, p, IconLit) THEN 0
    ELSE LET r == SkipWs(s, p + Len(IconLit))
         IN  IF ~MatchLitAt(s, r, <<Quote>>) THEN 0
             ELSE LET c == NextQuote(s, r + 1)
                  IN  IF c = 0 THEN 0 ELSE c + 1

IconEnd(s, p) ==
    IF ~MatchLitAt(s, p, IconLit) THEN 0
    ELSE LET r == SkipWs(s, p + Len(IconLit))
         IN  IF ~MatchLitAt(s, r, <<Quote>>) THEN 0
             ELSE LET c == NextQuote(s, r + 1)
                  IN  IF c = 0 \/ c = r + 1 THEN 0 ELSE c + 1

\* [\s\S]*? followed by the icon pattern: the lowest index >= from where
\* the icon pattern matches, 0 when there is none
FirstIconInRecord(s, from) ==
    LET stop == Find(s, IdLit, from)
        hits == {q \in from..(IF stop = 0 THEN Len(s) ELSE stop - 1) : IconEnd(s, q) # 0}
    IN  IF hits = {} THEN 0 ELSE CHOOSE q \in hits : \A x \in hits : q <= x

FirstIcon(s, from) ==
    LET hits == {q \in from..Len(s) : IconEnd(s, q) # 0}
    IN  IF hits = {} THEN 0 ELSE CHOOSE q \in hits : \A x \in hits : q <= x

\* where re.sub(pattern, replacement, content, count=1) matches: the
\* leftmost index at which the whole pattern matches, 0 when there is none
SubStart(s, ability_id) ==
    LET hits == {p \in 1..Len(s) :
                    /\ AnchorEnd(s, p, ability_id) # 0
                    /\ FirstIcon(s, AnchorEnd(s, p, ability_id)) # 0}
    IN  IF hits = {} THEN 0 ELSE CHOOSE p \in hits : \A x \in hits : p <= x

\* re.sub(pattern, rf"\1icon: '{new_icon}'", content, count=1); new_icon
\* holds no backslash, so the template inserts it as it is
UpdateEntryAll(content, e) ==
    LET p == SubStart(content, e[1])
    IN  IF p = 0 THEN content
        ELSE LET q == FirstIcon(content, 1)
                 n == IconEnd(content, q)
             IN  SubSeq(content, 1, q - 1) \o Replacement(e[2])
                 \o SubSeq(content, n, Len(content))

UpdateEntry(content, e) ==
    LET p == SubStart(content, e[1])
    IN  IF p = 0 THEN content
        ELSE LET q == FirstIcon(content, AnchorEnd(content, p, e[1]))
                 n == IconEnd(content, q)
             IN  SubSeq(content, 1, q - 1) \o Replacement(e[2])
                 \o SubSeq(content, n, Len(content))

RECURSIVE UpdateTrace(_, _)
UpdateTrace(content, es) ==
    IF es = <<>> THEN <<content>>
    ELSE <<content>> \o UpdateTrace(UpdateEntry(content, Head(es)), Tail(es))

\* the orders in which a set of tuples can be iterated: the order of a
\* Python set of str tuples follows the per-process string hash seed
IterationOrders(S) ==
    {o \in [1..Cardinality(S) -> S] : \A i, j \in 1..Cardinality(S) : o[i] = o[j] => i = j}

update_file ==
    /\ tool = "update_path_icons"
    /\ runs < MaxRuns
    /\ \E o \in IterationOrders(icon_mappings) :
         LET t == UpdateTrace(disk, o)
         IN  /\ original' = disk
             /\ trace' = t
             /\ order' = o
             /\ wrote' = Changed(Last(t), disk)
             /\ disk' = IF Changed(Last(t), disk) THEN Last(t) ELSE disk
             /\ ret' = Changed(Last(t), disk)
    /\ runs' = runs + 1
    /\ UNCHANGED <<tool, replacements, icon_mappings, source, replaced_count, aux>>

-----------------------------------------------------------------------------
(* Specification *)

InitRun ==
    /\ disk = Render(source)
    /\ runs = 0
    /\ original = <<>>
    /\ trace = <<>>
    /\ order = <<>>
    /\ ret = FALSE
    /\ wrote = FALSE
    /\ replaced_count = 0

\* nothing has been printed
InitAux ==
    /\ report = ""
    /\ pc = "idle"
    /\ files = <<>>
    /\ files0 = <<>>
    /\ exists = <<>>
    /\ icons_present = TRUE
    /\ next_file = 1
    /\ processed = <<>>
    /\ updated = <<>>
    /\ statuses = <<>>
    /\ hooks = <<>>
    /\ exit_code = -1
    /\ failed_at = ""

InitDirect ==
    /\ tool \in DirectTools
    /\ replacements \in SeqsUpTo(DirectEntries, MaxEntries)
    /\ icon_mappings = {}
    /\ source \in SeqsUpTo(DirectFields, MaxFrags)

InitAnchored ==
    /\ tool = "update_path_icons"
    /\ replacements = <<>>
    /\ icon_mappings \in {m \in SUBSET AnchoredEntries : Cardinality(m) <= MaxEntries}
    /\ source \in SeqsUpTo(AnchoredFields, MaxFrags)

Init == (InitDirect \/ InitAnchored) /\ InitRun /\ InitAux

Next ==
    \/ apply_replace_icons_in_file
    \/ wave4_replace_icons_in_file
    \/ update_file

Spec == Init /\ [][Next]_vars

-----------------------------------------------------------------------------
(* Section injector: update_icons_constants *)

\* The literals of the injector, shortened: what matters of them is kept,
\* which one contains which.  The block and the new aggregate contain the
\* block name; the old aggregate is not part of the new one; neither the
\* block nor the aggregates contain the anchor.

\* "PATH_ABILITY_ICONS"
BlockName == <<"P", "A", "I">>

\* "// Export all icon constants"
Marker == <<"/", "/", "E">>

\* "export const PATH_ABILITY_ICONS"
BlockDecl == <<"x", " ">> \o BlockName

\* the section of update_icons_constants.py and the one of
\* execute_wave4_updates.py: the same declaration, other comment lines
Block(t) ==
    <<"\n", "/", "/", "p", "\n">> \o BlockDecl \o <<"=", "{">>
    \o (IF t = "update_icons_constants" THEN <<"/", "/", "s">> ELSE <<>>)
    \o <<"}", "\n">>

\* old_export: the seven-member ALL_ICONS
OldExport == <<"x", " ", "A", "{", "C", ",", "}">>

\* new_export: the same with ...PATH_ABILITY_ICONS appended
NewExport == <<"x", " ", "A", "{", "C", ",", ".">> \o BlockName \o <<",", "}">>

\* content.replace(old, new): every non-overlapping occurrence, left to right
RECURSIVE ReplaceAll(_, _, _)
ReplaceAll(s, old, new) ==
    LET p == Find(s, old, 1)
    IN  IF p = 0 THEN s
        ELSE SubSeq(s, 1, p - 1) \o new
             \o ReplaceAll(SubSeq(s, p + Len(old), Len(s)), old, new)

\* the lines icons.ts is made of in the model
SegKinds == {"marker", "old_export", "edited_export", "mention", "other"}

RenderSeg(k) ==
    (IF k = "marker" THEN Marker
     ELSE IF k = "old_export" THEN OldExport
     ELSE IF k = "edited_export" THEN <<"x", " ", "A", "{", "C", "}">>
     ELSE IF k = "mention" THEN <<"/", "/", " ">> \o BlockName
     ELSE IF k = "block_a" THEN Block("update_icons_constants")
     ELSE IF k = "block_b" THEN Block("execute_wave4_updates")
     ELSE IF k = "new_export" THEN NewExport
     ELSE <<"x", " ", "S">>)
    \o <<"\n">>

RenderSegs(ks) == Concat([i \in 1..Len(ks) |-> RenderSeg(ks[i])])

InjectTools == {"update_icons_constants", "execute_wave4_updates"}

\* `if "PATH_ABILITY_ICONS" in content:`
GuardFiresOnDecl(content) == Contains(content, BlockDecl)

GuardFires(content) == Contains(content, BlockName)

\* content.replace(insertion_marker, section + insertion_marker)
InsertBlock(t, content) == ReplaceAll(content, Marker, Block(t) \o Marker)

\* content.replace(old_export, new_export)
RewriteExport(content) == ReplaceAll(content, OldExport, NewExport)

\* the content that is written: the two replacements, one after the other
InjectedCoupled(t, content) ==
    IF Contains(content, OldExport) THEN RewriteExport(InsertBlock(t, content))
    ELSE content

Injected(t, content) == RewriteExport(InsertBlock(t, content))

\* the return value and the status line of a call on the content
InjectorRet(content) == ~GuardFires(content)

InjectorReport(content) == IF GuardFires(content) THEN "already exists" ELSE "updated"

\* the body of update_icons_constants of script t on the file content
InjectorCall(t) ==
    /\ original' = disk
    /\ IF GuardFires(disk)
       THEN /\ trace' = <<disk>>
            /\ disk' = disk
            /\ wrote' = FALSE
       ELSE /\ trace' = <<disk, InsertBlock(t, disk), Injected(t, disk)>>
            /\ disk' = Injected(t, disk)
            /\ wrote' = TRUE
    /\ ret' = InjectorRet(disk)
    /\ report' = InjectorReport(disk)

standalone_update_icons_constants ==
    /\ tool = "update_icons_constants"
    /\ runs < MaxRuns
    /\ InjectorCall("update_icons_constants")
    /\ runs' = runs + 1
    /\ UNCHANGED <<tool, replacements, icon_mappings, source, order, replaced_count,
                   mainvars>>

wave4_update_icons_constants ==
    /\ tool = "execute_wave4_updates"
    /\ runs < MaxRuns
    /\ InjectorCall("execute_wave4_updates")
    /\ runs' = runs + 1
    /\ UNCHANGED <<tool, replacements, icon_mappings, source, order, replaced_count,
                   mainvars>>

InitInject ==
    /\ tool \in InjectTools
    /\ replacements = <<>>
    /\ icon_mappings = {}
    /\ source \in SeqsUpTo(SegKinds, MaxFrags)
    /\ disk = RenderSegs(source)
    /\ runs = 0
    /\ original = <<>>
    /\ trace = <<>>
    /\ order = <<>>
    /\ ret = FALSE
    /\ wrote = FALSE
    /\ replaced_count = 0
    /\ InitAux

NextInject ==
    \/ standalone_update_icons_constants
    \/ wave4_update_icons_constants

SpecInject == InitInject /\ [][NextInject]_vars

-----------------------------------------------------------------------------
(* main of apply_icon_updates.py and of execute_wave4_updates.py *)

\* len(files_to_update): warrior.ts, mage.ts, rogue.ts, paladin.ts
NumFiles == 4

\* the mapping list of each entry of files_to_update, shortened
FileReplacements(i) ==
    IF i = 1 THEN <<<<Zap, Pz>>, <<Zap, Qq>>>>
    ELSE IF i = 2 THEN <<<<Zap, Pz>>>>
    ELSE IF i = 3 THEN <<<<ArrowUp, Pz>>>>
    ELSE <<<<Zap, Qq>>>>

\* the contents a path file can start with
FileDocs ==
    {Render(<<IconField(1, Zap)>>), Render(<<OtherField>>)}

\* the contents icons.ts can start with
IconsDocs ==
    {<<"old_export", "marker">>, <<"edited_export", "marker">>,
     <<"old_export">>, <<"mention", "marker">>}

\* replace_icons_in_file of script t: the content after the loop
Rewritten(t, content, es) ==
    IF t = "apply_icon_updates" THEN Last(ApplyTrace(content, es))
    ELSE Last(Wave4Trace(content, es))

\* the loop variable after the iteration on entry i
NextIndexStop(i, present) == IF present THEN i + 1 ELSE NumFiles + 1

NextIndex(i, present) == i + 1

\* one iteration of `for filepath, replacements in files_to_update:`
ProcessFile(t) ==
    LET i == next_file
        content == Rewritten(t, files[i], FileReplacements(i))
    IN  /\ pc = "paths"
        /\ next_file <= NumFiles
        /\ IF exists[i]
           THEN /\ processed' = Append(processed, i)
                /\ IF Changed(content, files[i])
                   THEN /\ files' = [files EXCEPT ![i] = content]
                        /\ updated' = Append(updated, i)
                        /\ statuses' = Append(statuses, "updated")
                   ELSE /\ statuses' = Append(statuses, "no changes")
                        /\ UNCHANGED <<files, updated>>
           ELSE /\ statuses' = Append(statuses, "not found")
                /\ UNCHANGED <<files, updated, processed>>
        /\ next_file' = NextIndex(i, exists[i])

\* what the steps of main leave alone besides mainvars
mainframe == <<tool, replacements, icon_mappings, source, order, replaced_count>>

injvars == <<disk, runs, original, trace, ret, wrote, report>>

apply_main_loop ==
    /\ tool = "apply_icon_updates"
    /\ ProcessFile("apply_icon_updates")
    /\ UNCHANGED <<pc, files0, exists, icons_present, hooks, exit_code, failed_at>>
    /\ UNCHANGED <<mainframe, injvars>>

\* print(f"\nCompleted: {updated_count}/4 files updated") and the end of main
apply_main_end ==
    /\ tool = "apply_icon_updates"
    /\ pc = "paths"
    /\ next_file > NumFiles
    /\ pc' = "done"
    /\ exit_code' = 0
    /\ UNCHANGED <<files, files0, exists, icons_present, next_file, processed,
                   updated, statuses, hooks, failed_at>>
    /\ UNCHANGED <<mainframe, injvars>>

wave4_update_path_files ==
    /\ tool = "execute_wave4_updates"
    /\ ProcessFile("execute_wave4_updates")
    /\ UNCHANGED <<pc, files0, exists, icons_present, hooks, exit_code, failed_at>>
    /\ UNCHANGED <<mainframe, injvars>>

\* path_files = update_path_files(); if not path_files: sys.exit(1)
NoPathFileUpdated(path_files) == path_files = <<>>

wave4_main_path_files ==
    /\ tool = "execute_wave4_updates"
    /\ pc = "paths"
    /\ next_file > NumFiles
    /\ IF NoPathFileUpdated(updated)
       THEN /\ pc' = "done"
            /\ exit_code' = 1
            /\ failed_at' = "paths"
       ELSE /\ pc' = "icons"
            /\ UNCHANGED <<exit_code, failed_at>>
    /\ UNCHANGED <<files, files0, exists, icons_present, next_file, processed,
                   updated, statuses, hooks>>
    /\ UNCHANGED <<mainframe, injvars>>

\* icons_updated = update_icons_constants(); its value is not looked at.
\* open() of a missing icons.ts raises, nothing catches it, the process ends
\* with status 1
wave4_main_icons ==
    /\ tool = "execute_wave4_updates"
    /\ pc = "icons"
    /\ IF icons_present
       THEN /\ InjectorCall("execute_wave4_updates")
            /\ runs' = runs + 1
            /\ pc' = "build"
            /\ UNCHANGED <<exit_code, failed_at>>
       ELSE /\ pc' = "done"
            /\ exit_code' = 1
            /\ failed_at' = "icons"
            /\ UNCHANGED injvars
    /\ UNCHANGED <<files, files0, exists, icons_present, next_file, processed,
                   updated, statuses, hooks>>
    /\ UNCHANGED mainframe

\* where main is after run_build returned build_success
AfterBuildContinue(build_success) == "commit"

AfterBuild(build_success) == IF build_success THEN "commit" ELSE "done"

\* build_success = run_build(); if not build_success: sys.exit(1)
wave4_main_build ==
    /\ tool = "execute_wave4_updates"
    /\ pc = "build"
    /\ hooks' = Append(hooks, "build")
    /\ \E build_success \in BOOLEAN :
         /\ pc' = AfterBuild(build_success)
         /\ IF build_success
            THEN UNCHANGED <<exit_code, failed_at>>
            ELSE /\ exit_code' = 1
                 /\ failed_at' = "build"
    /\ UNCHANGED <<files, files0, exists, icons_present, next_file, processed,
                   updated, statuses>>
    /\ UNCHANGED <<mainframe, injvars>>

\* commit_success = commit_changes(); if not commit_success: sys.exit(1);
\* otherwise the summary and the end of main
wave4_main_commit ==
    /\ tool = "execute_wave4_updates"
    /\ pc = "commit"
    /\ hooks' = Append(hooks, "commit")
    /\ \E commit_success \in BOOLEAN :
         IF commit_success
         THEN /\ exit_code' = 0
              /\ UNCHANGED failed_at
         ELSE /\ exit_code' = 1
              /\ failed_at' = "commit"
    /\ pc' = "done"
    /\ UNCHANGED <<files, files0, exists, icons_present, next_file, processed,
                   updated, statuses>>
    /\ UNCHANGED <<mainframe, injvars>>

InitMain ==
    /\ tool \in DirectTools
    /\ replacements = <<>>
    /\ icon_mappings = {}
    /\ order = <<>>
    /\ replaced_count = 0
    /\ exists \in [1..NumFiles -> BOOLEAN]
    /\ files \in [1..NumFiles -> FileDocs \cup {<<>>}]
    /\ \A i \in 1..NumFiles : exists[i] <=> files[i] # <<>>
    /\ files0 = files
    /\ IF tool = "execute_wave4_updates"
       THEN source \in IconsDocs /\ icons_present \in BOOLEAN
       ELSE source = <<>> /\ icons_present = FALSE
    /\ disk = IF icons_present THEN RenderSegs(source) ELSE <<>>
    /\ runs = 0
    /\ original = <<>>
    /\ trace = <<>>
    /\ ret = FALSE
    /\ wrote = FALSE
    /\ report = ""
    /\ pc = "paths"
    /\ next_file = 1
    /\ processed = <<>>
    /\ updated = <<>>
    /\ statuses = <<>>
    /\ hooks = <<>>
    /\ exit_code = -1
    /\ failed_at = ""

NextMain ==
    \/ apply_main_loop
    \/ apply_main_end
    \/ wave4_update_path_files
    \/ wave4_main_path_files
    \/ wave4_main_icons
    \/ wave4_main_build
    \/ wave4_main_commit

SpecMain == InitMain /\ [][NextMain]_vars

-----------------------------------------------------------------------------
(* main when reading or writing a file fails *)

\* what a file holds when `with open(filepath, 'w') as f: f.write(content)`
\* raised: open has truncated the file, write has put a part of content
WriteLeft(content) == {SubSeq(content, 1, k) : k \in 0..(Len(content) - 1)}

\* an iteration of the loop in which open/read or open/write raises: the
\* loop is not in a try, nor is the call in main, so the exception ends the
\* process with a traceback and status 1
ProcessFileRaises(t) ==
    LET i == next_file
        content == Rewritten(t, files[i], FileReplacements(i))
    IN  /\ pc = "paths"
        /\ next_file <= NumFiles
        /\ exists[i]
        /\ processed' = Append(processed, i)
        /\ \/ /\ failed_at' = "read"
              /\ UNCHANGED files
           \/ /\ Changed(content, files[i])
              /\ failed_at' = "write"
              /\ \E left \in WriteLeft(content) : files' = [files EXCEPT ![i] = left]
        /\ pc' = "done"
        /\ exit_code' = 1
        /\ UNCHANGED <<files0, exists, icons_present, next_file, updated, statuses, hooks>>

apply_main_loop_raises ==
    /\ tool = "apply_icon_updates"
    /\ ProcessFileRaises("apply_icon_updates")
    /\ UNCHANGED <<mainframe, injvars>>

wave4_update_path_files_raises ==
    /\ tool = "execute_wave4_updates"
    /\ ProcessFileRaises("execute_wave4_updates")
    /\ UNCHANGED <<mainframe, injvars>>

\* update_icons_constants past the guard when the write of icons.ts raises
wave4_main_icons_raises ==
    /\ tool = "execute_wave4_updates"
    /\ pc = "icons"
    /\ icons_present
    /\ ~GuardFires(disk)
    /\ original' = disk
    /\ trace' = <<disk, InsertBlock(tool, disk), Injected(tool, disk)>>
    /\ \E left \in WriteLeft(Injected(tool, disk)) : disk' = left
    /\ wrote' = TRUE
    /\ runs' = runs + 1
    /\ pc' = "done"
    /\ exit_code' = 1
    /\ failed_at' = "write"
    /\ UNCHANGED <<ret, report>>
    /\ UNCHANGED <<files, files0, exists, icons_present, next_file, processed,
                   updated, statuses, hooks>>
    /\ UNCHANGED mainframe

NextMainIO ==
    \/ NextMain
    \/ apply_main_loop_raises
    \/ wave4_update_path_files_raises
    \/ wave4_main_icons_raises

SpecMainIO == InitMain /\ [][NextMainIO]_vars

-----------------------------------------------------------------------------
(* Properties *)

IsDirect == tool \in DirectTools

IsAnchored == tool = "update_path_icons"

Min(S) == CHOOSE x \in S : \A y \in S : x <= y

\* the r-th smallest element of a set of numbers
Nth(S, r) == CHOOSE x \in S : Cardinality({y \in S : y <= x}) = r

\* the first entry of the first run has been applied to the initial document
FirstEntryDone == runs = 1 /\ Len(order) >= 1 /\ Len(trace) >= 2

\* indices of the fields that read  icon: 'old'
OldFields(fs, old) == {i \in 1..Len(fs) : fs[i] = IconField(1, old)}

\* C1: direct mode, one entry (old, new), a document with k >= 1 fields
\* icon: 'old': the entry turns the first of them into icon: 'new' and
\* leaves everything else, the other k-1 occurrences included, as it was.
C1_FirstOccurrenceOnly ==
    (IsDirect /\ FirstEntryDone /\ OldFields(source, order[1][1]) # {})
    => trace[2] = Render([source EXCEPT
                            ![Min(OldFields(source, order[1][1]))] =
                                IconField(1, order[1][2])])

\* the olds and the news of a mapping list
Olds(es) == {es[k][1] : k \in 1..Len(es)}

News(es) == {es[k][2] : k \in 1..Len(es)}

EntriesOf(es, old) == {k \in 1..Len(es) : es[k][1] = old}

\* the field the positional rule expects at index i after the whole list
Positional(fs, es, i) ==
    IF fs[i].k = "icon" /\ fs[i].ws = 1 /\ fs[i].v \in Olds(es)
    THEN LET r == Cardinality({j \in 1..i : fs[j] = fs[i]})
             ks == EntriesOf(es, fs[i].v)
         IN  IF r <= Cardinality(ks) THEN IconField(1, es[Nth(ks, r)][2])
             ELSE fs[i]
    ELSE fs[i]

\* C2: direct mode, no replacement value equal to an old value of the list:
\* after the rewrite the j-th field icon: 'old' carries the replacement of the
\* j-th entry for that old value, and the occurrences beyond the last such
\* entry are unchanged.
C2_DuplicatesPositional ==
    (IsDirect /\ runs = 1 /\ News(order) \cap Olds(order) = {})
    => disk = Render([i \in 1..Len(source) |-> Positional(source, order, i)])

\* every element of the trace of the last run is the text that was read
AllNoOps == \A i \in 1..Len(trace) : trace[i] = original

NoOpRun == AllNoOps /\ ret = FALSE /\ wrote = FALSE /\ disk = original

NoPatternLeft(text, es) ==
    \A k \in 1..Len(es) : ~Contains(text, Pattern(es[k][1]))

C4_AnchoredRerunNoOp ==
    (IsAnchored /\ runs >= 2) => (disk = original /\ ret = FALSE /\ wrote = FALSE)

\* Anchored mode on the fields of the initial document.  The anchor of an
\* entry is what the code searches for: id:, optional blanks, the quoted
\* ability id and a comma.  An icon field counts when its quoted value is
\* not empty.
AnchorFields(fs, id) == {i \in 1..Len(fs) : fs[i].k = "id" /\ fs[i].v = id}

ValuedIcon(f) == f.k = "icon" /\ f.v # <<>>

\* the first valued icon field after the first anchor field, 0 when none
Target(fs, id) ==
    IF AnchorFields(fs, id) = {} THEN 0
    ELSE LET js == {j \in (Min(AnchorFields(fs, id)) + 1)..Len(fs) : ValuedIcon(fs[j])}
         IN  IF js = {} THEN 0 ELSE Min(js)

\* where the text of field j starts in the rendered document
Offset(fs, j) == Len(Render(SubSeq(fs, 1, j - 1))) + 1

\* C5: anchored mode, an entry (anchor, new), a document where the anchor
\* is followed later by an icon field with a non-empty value: after the entry
\* the first such icon field after the first occurrence of the anchor reads
\* icon: 'new', whatever its value was and whatever lies in between.
C5_AnchoredSetsIcon ==
    (IsAnchored /\ FirstEntryDone /\ Target(source, order[1][1]) # 0)
    => MatchLitAt(trace[2], Offset(source, Target(source, order[1][1])),
                  Replacement(order[1][2]) \o <<",">>)

C5_Witness ==
    /\ IsAnchored /\ FirstEntryDone
    /\ Target(source, order[1][1]) # 0
    /\ Target(source, order[1][1]) > Min(AnchorFields(source, order[1][1])) + 1
    /\ source[Target(source, order[1][1])].v # order[1][2]
    /\ MatchLitAt(trace[2], Offset(source, Target(source, order[1][1])),
                  Replacement(order[1][2]) \o <<",">>)

\* the fields after one anchored entry
AfterEntry(fs, e) ==
    IF Target(fs, e[1]) = 0 THEN fs
    ELSE [fs EXCEPT ![Target(fs, e[1])] = IconField(1, e[2])]

C7_OrderIndependent ==
    (IsAnchored /\ runs >= 1)
    => \A o \in IterationOrders(icon_mappings) :
          Last(UpdateTrace(original, o)) = Last(trace)

\* the i-th entry of the last run found nothing in the text it was given
NotFound(i) ==
    IF IsDirect THEN ~Contains(trace[i], Pattern(order[i][1]))
    ELSE \A p \in 1..Len(trace[i]) : AnchorEnd(trace[i], p, order[i][1]) = 0

EntryStep(text, e) ==
    IF tool = "apply_icon_updates" THEN ApplyEntry(text, e)
    ELSE IF tool = "execute_wave4_updates" THEN Wave4Entry(text, e)
    ELSE UpdateEntry(text, e)

\* C8: an entry whose pattern (direct mode) or anchor (anchored mode) does
\* not occur in the current text leaves the text unchanged, and the loop
\* goes on: every entry of the list is processed, the later ones included.
C8_NotFoundIsNoOp ==
    runs >= 1
    => /\ Len(trace) = Len(order) + 1
       /\ ret \in BOOLEAN
       /\ \A i \in 1..Len(order) :
             /\ NotFound(i) => trace[i + 1] = trace[i]
             /\ trace[i + 1] = EntryStep(trace[i], order[i])

C8_Witness ==
    /\ runs >= 1
    /\ Len(trace) = Len(order) + 1
    /\ \E i, j \in 1..Len(order) :
          i < j /\ NotFound(i) /\ trace[i + 1] = trace[i] /\ trace[j + 1] # trace[j]

ChangedIdx == {i \in 1..Len(order) : trace[i + 1] # trace[i]}

FoundIdx == {i \in 1..Len(order) : Contains(trace[i], Pattern(order[i][1]))}

\* C9 as stated: execute_wave4_updates: replaced_count is the number of
\* entries that changed the text, and 0 <= replaced_count <= len(replacements).
C9_CountsChanges ==
    (tool = "execute_wave4_updates" /\ runs >= 1)
    => /\ replaced_count = Cardinality(ChangedIdx)
       /\ 0 <= replaced_count /\ replaced_count <= Len(replacements)

\* C9 amended: replaced_count is the number of entries whose pattern was
\* found in the text when they were processed; an entry that changed the text
\* is one of them, a found entry that changed nothing is one whose replacement
\* is its own pattern, and 0 <= replaced_count <= len(replacements).
C9_CountsFound ==
    (tool = "execute_wave4_updates" /\ runs >= 1)
    => /\ replaced_count = Cardinality(FoundIdx)
       /\ ChangedIdx \subseteq FoundIdx
       /\ \A i \in FoundIdx \ ChangedIdx :
             Replacement(order[i][2]) = Pattern(order[i][1])
       /\ 0 <= replaced_count /\ replaced_count <= Len(replacements)

C9_Witness ==
    /\ tool = "execute_wave4_updates" /\ runs >= 1
    /\ ChangedIdx # {}
    /\ FoundIdx \ ChangedIdx # {}
    /\ replaced_count = Cardinality(FoundIdx)

\* C10: replace_icons_in_file and update_file return True and overwrite the
\* file with the updated text exactly when the updated text differs from the
\* text that was read; otherwise, and so when no entry matches anything, they
\* return False and do not write.
C10_WriteIffChanged ==
    runs >= 1
    => /\ ret = (Last(trace) # original)
       /\ wrote = ret
       /\ disk = Last(trace)
       /\ (\A i \in 1..Len(order) : NotFound(i)) => (ret = FALSE /\ disk = original)

C10_Witness ==
    /\ runs >= 1
    /\ ret = TRUE /\ wrote = TRUE
    /\ disk = Last(trace) /\ disk # original

-----------------------------------------------------------------------------
(* Properties of the injector *)

IsInjector == tool \in InjectTools

Kinds(ks) == {ks[i] : i \in 1..Len(ks)}

\* the last call passed the guard
PassedGuard == IsInjector /\ runs >= 1 /\ ~Contains(original, BlockName)

\* C11: when icons.ts already contains PATH_ABILITY_ICONS anywhere,
\* update_icons_constants returns False, does not write and leaves the
\* content as it is.
C11_GuardLeavesFile ==
    (IsInjector /\ runs >= 1 /\ Contains(original, BlockName))
    => (ret = FALSE /\ wrote = FALSE /\ disk = original)

C11_Witness ==
    /\ IsInjector /\ runs = 1
    /\ "mention" \in Kinds(source) /\ "marker" \in Kinds(source)
    /\ Contains(original, BlockName)
    /\ ret = FALSE /\ wrote = FALSE /\ disk = original

\* C12: two calls in succession: when the first returned True, the second
\* returns False and leaves the text as the first left it.
C12_SecondCallNoOp ==
    [][(IsInjector /\ runs >= 1 /\ ret = TRUE) => (ret' = FALSE /\ disk' = disk)]_vars

\* C13: when the guard does not fire the block is inserted immediately
\* before the first anchor line and nowhere else, also when the anchor occurs
\* more than once.
C13_InsertedBeforeFirstAnchorOnly ==
    (PassedGuard /\ runs = 1 /\ "marker" \in Kinds(source))
    => LET m == Min({i \in 1..Len(source) : source[i] = "marker"})
       IN  trace[2] = RenderSegs(SubSeq(source, 1, m - 1)) \o Block(tool)
                      \o RenderSegs(SubSeq(source, m, Len(source)))

\* the number of occurrences of pat in s
RECURSIVE CountOcc(_, _)
CountOcc(s, pat) ==
    LET p == Find(s, pat, 1)
    IN  IF p = 0 THEN 0 ELSE 1 + CountOcc(SubSeq(s, p + Len(pat), Len(s)), pat)

\* C14: from an initial text without PATH_ABILITY_ICONS, after any number
\* of calls the document holds at most one export const PATH_ABILITY_ICONS.
C14_AtMostOneBlock ==
    (IsInjector /\ ~Contains(RenderSegs(source), BlockName))
    => CountOcc(disk, BlockDecl) <= 1

\* C15: when the anchor is absent and the guard does not fire, the call
\* signals a failure of its own: it neither returns True nor reports one of
\* the two statuses of the other cases.
C15_AnchorMissingFails ==
    (PassedGuard /\ ~Contains(original, Marker))
    => (ret # TRUE /\ report \notin {"updated", "already exists"})

\* the text the two replacements are expected to give, line by line
ExpectedSeg(t, k) ==
    IF k = "marker" THEN Block(t) \o RenderSeg(k)
    ELSE IF k = "old_export" THEN RenderSeg("new_export")
    ELSE RenderSeg(k)

ExpectedSegs(t, ks) == Concat([i \in 1..Len(ks) |-> ExpectedSeg(t, ks[i])])

\* C16: the insertion and the aggregate rewrite take effect independently:
\* without the exact old ALL_ICONS text the aggregate step changes nothing
\* and the block is still inserted before the anchor; with the anchor
\* present the block is inserted whether the aggregate text is found or not.
C16_StepsIndependent ==
    PassedGuard
    => /\ ~Contains(original, OldExport) => disk = trace[2]
       /\ Contains(original, Marker) => Contains(disk, Block(tool) \o Marker)
       /\ Contains(original, OldExport) => Contains(disk, NewExport)
       /\ runs = 1 => disk = ExpectedSegs(tool, source)

C16_Witness ==
    /\ PassedGuard /\ runs = 1
    /\ "marker" \in Kinds(source) /\ "edited_export" \in Kinds(source)
    /\ ~Contains(original, OldExport)
    /\ Contains(disk, Block(tool) \o Marker)
    /\ disk = trace[2] /\ disk # original

\* a document on which both steps apply
BothApply == RenderSegs(<<"old_export", "marker">>)

\* C17: the outcome (return value, status line) of a call that inserted the
\* block but did not find the old ALL_ICONS text differs from the outcome of
\* a call in which both steps applied.
C17_AggregateNoOpReported ==
    (PassedGuard /\ trace[2] # trace[1] /\ trace[3] = trace[2])
    => <<ret, report>> # <<InjectorRet(BothApply), InjectorReport(BothApply)>>

-----------------------------------------------------------------------------
(* Properties of main *)

InMain == pc # "idle"

\* the elements of a set of numbers in ascending order
RECURSIVE Ascending(_)
Ascending(S) == IF S = {} THEN <<>> ELSE <<Min(S)>> \o Ascending(S \ {Min(S)})

\* the entries of files_to_update the loop has been through
Visited == {i \in 1..NumFiles : i < next_file}

\* C18: a missing path file does not stop the run: whichever files are
\* absent, every file that exists is processed, in list order, and the
\* updated count is the number of files that existed and whose content
\* changed.
C18_MissingFileSkipped ==
    InMain
    => /\ processed = Ascending({i \in Visited : exists[i]})
       /\ Len(updated) = Cardinality({i \in Visited : exists[i] /\ files[i] # files0[i]})
       /\ \A i \in 1..NumFiles : ~exists[i] => files[i] = files0[i]
       /\ pc # "paths" => next_file = NumFiles + 1

C18_Witness ==
    /\ InMain /\ pc # "paths"
    /\ Cardinality({i \in 1..NumFiles : ~exists[i]}) = 1
    /\ ~exists[3]
    /\ processed = <<1, 2, 4>>
    /\ updated = <<1, 2, 4>>
    /\ statuses[3] = "not found"

\* C19: execute_wave4_updates: when every path file exists and none of them
\* changes, each file gets the status "no changes" and main does not give up
\* with the failure status for that reason.
C19_NoChangeIsNotFailure ==
    (tool = "execute_wave4_updates" /\ InMain /\ pc # "paths"
       /\ \A i \in 1..NumFiles : exists[i] /\ files[i] = files0[i])
    => /\ \A i \in 1..NumFiles : statuses[i] = "no changes"
       /\ ~(exit_code = 1 /\ failed_at = "paths")

\* the injection step of main has put the block in icons.ts, or found the
\* name already there
InjectionSucceeded ==
    /\ icons_present
    /\ runs >= 1
    /\ \/ Contains(original, BlockName)
       \/ Contains(disk, Block(tool) \o Marker)

\* C20: execute_wave4_updates.main: a hook is invoked only when every
\* rewrite step of the run succeeded: each of the four path files was
\* rewritten and the section was injected into icons.ts.
C20_HooksAfterAllRewrites ==
    (tool = "execute_wave4_updates" /\ hooks # <<>>)
    => /\ \A i \in 1..NumFiles : exists[i]
       /\ InjectionSucceeded

\* C21: execute_wave4_updates.main: a failing build ends the process with a
\* non-zero status and the commit hook is never invoked; a failing commit
\* ends the process with a non-zero status; the process ends with status
\* zero only when both hooks were invoked and neither failed.
C21_HookFailuresAbort ==
    (tool = "execute_wave4_updates" /\ InMain)
    => /\ failed_at = "build"
          => (exit_code > 0 /\ pc = "done" /\ hooks = <<"build">>)
       /\ failed_at = "commit"
          => (exit_code > 0 /\ pc = "done" /\ hooks = <<"build", "commit">>)
       /\ exit_code = 0
          => (failed_at = "" /\ pc = "done" /\ hooks = <<"build", "commit">>)
       /\ (pc = "done" /\ failed_at = "") => exit_code = 0

C21_Witness ==
    /\ tool = "execute_wave4_updates" /\ pc = "done"
    /\ failed_at = "build"
    /\ exit_code = 1
    /\ hooks = <<"build">>

\* C22: the injector writes icons.ts only when the content changed: a call
\* that leaves the text identical to what it read (neither the anchor nor
\* the old ALL_ICONS text occurs in it) does not open the file for writing.
C22_InjectorWritesOnlyChange ==
    (IsInjector /\ runs >= 1 /\ Last(trace) = original) => wrote = FALSE

\* the values an icon field can hold
IconValues == {Zap, Axe, ArrowUp, Pz, Qq, Empty}

\* the fields fs with the values vs in their icon fields
WithValues(fs, vs) ==
    [i \in 1..Len(fs) |-> IF fs[i].k = "icon" THEN [fs[i] EXCEPT !.v = vs[i]]
                          ELSE fs[i]]

\* text is the document of the fields fs but for the quoted values of its
\* icon fields
SameButIconValues(text, fs) ==
    \E vs \in [1..Len(fs) -> IconValues] : text = Render(WithValues(fs, vs))

\* C23: the rewriters of the path files (replace_icons_in_file, update_file)
\* change nothing but the quoted value of icon fields: the field names, the
\* whitespace between icon: and the opening quote, the text between an
\* anchor and its icon field and the end of the document are as they were.
C23_OutsideSpansPreserved ==
    ((IsDirect \/ IsAnchored) /\ runs >= 1) => SameButIconValues(disk, source)

\* C24: a failure on one path file does not keep main from the files after
\* it: when the loop (and with it main) is over, every file of the list that
\* exists has been handed to replace_icons_in_file, also when reading or
\* writing an earlier file failed.
C24_FailureDoesNotStopLoop ==
    (InMain /\ pc # "paths") => \A i \in 1..NumFiles : exists[i] => i \in Kinds(processed)

\* C25: at every point of a run, also after a write that failed, a path
\* file holds either the text it had when main started or the text its
\* rewrite gives, and icons.ts either the text it had or the injected text.
C25_WriteAllOrNothing ==
    InMain
    => /\ \A i \in 1..NumFiles :
             files[i] \in {files0[i], Rewritten(tool, files0[i], FileReplacements(i))}
       /\ (tool = "execute_wave4_updates" /\ icons_present)
          => disk \in {RenderSegs(source), Injected(tool, RenderSegs(source))}

\* a record is an id field and the fields up to the next id field: the index
\* of the id field that follows field a, Len(fs) + 1 when there is none
NextRecord(fs, a) ==
    LET js == {j \in (a + 1)..Len(fs) : fs[j].k = "id"}
    IN  IF js = {} THEN Len(fs) + 1 ELSE Min(js)

\* the record of the first anchor of id has no valued icon field, and a later
\* record has one
IconOnlyInLaterRecord(fs, id) ==
    /\ AnchorFields(fs, id) # {}
    /\ LET a == Min(AnchorFields(fs, id))
       IN  /\ \A j \in (a + 1)..(NextRecord(fs, a) - 1) : ~ValuedIcon(fs[j])
           /\ \E j \in NextRecord(fs, a)..Len(fs) : ValuedIcon(fs[j])

\* the first valued icon field of the records after the one of field a
LaterIcon(fs, a) == Min({j \in NextRecord(fs, a)..Len(fs) : ValuedIcon(fs[j])})

\* C26: anchored mode: when the record of the anchor has no icon field with
\* a non-empty value, the entry sets the icon of a later record: the first
\* non-empty icon field after the anchor in the document, and nothing else.
C26_ScanCrossesRecords ==
    (IsAnchored /\ FirstEntryDone /\ IconOnlyInLaterRecord(source, order[1][1]))
    => LET j == LaterIcon(source, Min(AnchorFields(source, order[1][1])))
       IN  /\ trace[2] = Render([source EXCEPT ![j] = IconField(1, order[1][2])])
           /\ MatchLitAt(trace[2], Offset(source, j), Replacement(order[1][2]))

C26_Witness ==
    /\ IsAnchored /\ FirstEntryDone
    /\ IconOnlyInLaterRecord(source, order[1][1])
    /\ LET a == Min(AnchorFields(source, order[1][1]))
           j == LaterIcon(source, a)
       IN  /\ source[NextRecord(source, a)].v # order[1][1]
           /\ source[j].v # order[1][2]
           /\ trace[2] # trace[1]
           /\ trace[2] = Render([source EXCEPT ![j] = IconField(1, order[1][2])])

\* C27: from an initial icons.ts without PATH_ABILITY_ICONS, after any
\* number of calls of update_icons_constants the ALL_ICONS aggregate spreads
\* ...PATH_ABILITY_ICONS only if the document also holds the declaration
\* export const PATH_ABILITY_ICONS.
C27_NoReferenceWithoutDeclaration ==
    (IsInjector /\ ~Contains(RenderSegs(source), BlockName))
    => (Contains(disk, NewExport) => Contains(disk, BlockDecl))

\* C28: the two replace_icons_in_file are equivalent: on every document and
\* mapping list the unconditional first-occurrence replace of
\* apply_icon_updates.py and the replace guarded by `pattern in content` of
\* execute_wave4_updates.py give the same text after every entry, the same
\* file and the same True/False result.  (The four mapping lists of the two
\* scripts are the same literals; the model has one FileReplacements.)
C28_DirectRewritersEquivalent ==
    (IsDirect /\ runs >= 1)
    => /\ trace = ApplyTrace(original, replacements)
       /\ trace = Wave4Trace(original, replacements)
       /\ ret = Changed(Last(ApplyTrace(original, replacements)), original)
       /\ ret = Changed(Last(Wave4Trace(original, replacements)), original)
       /\ disk = Last(ApplyTrace(original, replacements))
       /\ disk = Last(Wave4Trace(original, replacements))
       /\ \A i \in 1..NumFiles :
             Rewritten("apply_icon_updates", original, FileReplacements(i))
             = Rewritten("execute_wave4_updates", original, FileReplacements(i))

C28_Witness ==
    /\ tool = "execute_wave4_updates" /\ runs = 1
    /\ Len(replacements) = 2
    /\ ~Wave4Found(trace[1], replacements[1])
    /\ Wave4Found(trace[2], replacements[2])
    /\ Cardinality(OldFields(source, replacements[2][1])) >= 2
    /\ ret = TRUE
    /\ trace = ApplyTrace(original, replacements)

====
